---- MODULE Spec2Model ----
(***************************************************************************)
(* A model of the sandbox preparation layer:                               *)
(*   - src/main/cpp/util/file_posix.cc: GetDirectoryStat, MakeDirectories, *)
(*     WriteFile, ReadFile, PosixFileMtime                                 *)
(*   - src/main/tools/linux-sandbox-options.cc: ExpandArguments,           *)
(*     ParseCommandLine, ParseOptions                                      *)
(* Strings are sequences of one-character strings, so that path[0] and     *)
(* rfind('/') are computed as the code computes them.                      *)
(***************************************************************************)
EXTENDS Integers, Sequences, FiniteSets, TLC

VARIABLES
    fs,         \* the filesystem: path -> inode (kind, owner, mode, link target)
    mask,       \* the process umask
    errno,      \* the calling thread's errno
    call,       \* the last MakeDirectories call and what it returned
    argv,       \* the token list handed to ExpandArguments
    files,      \* the argument files: name -> readable?, lines
    xres,       \* what ExpandArguments produced (or that the process died)
    xpc,        \* "start" before ExpandArguments ran, "expanded" after
    nofile,     \* RLIMIT_NOFILE: the descriptors the process may hold open
    args,       \* the expanded command line, as far as getopt has read it
    optind,     \* getopt: index of the next element of args (args[0] first)
    nextchar,   \* getopt: next character in a cluster of options, 0 if none
    nonopt,     \* getopt: the indices of the non-options it has skipped
    opt,        \* struct Options opt
    source_specified,   \* ParseCommandLine's local
    pc,         \* where ParseOptions is, or how the process ended
    diag,       \* the message of the usage error
    exitcode,   \* the exit status, once the process has exited
    log,        \* history: the options getopt returned, with their arguments
    prev,       \* history: opt before the last step
    given,      \* history: the command line in the order it was given
    ddash,      \* history: the index in given of the "--" that ended the
                \* options, 0 if there is none
    disk,       \* the file WriteFile and ReadFile work on, and its directory
    wr,         \* the last call of WriteFile
    rd,         \* the last call of ReadFile
    clock,      \* what time(NULL) returns
    mt,         \* the PosixFileMtime instance
    stamps,     \* the files the instance marks: their st_mtime
    query       \* the last call on the instance

dirVars == <<fs, mask, errno, call>>

expVars == <<argv, files, xres, xpc, nofile>>

parseVars == <<args, optind, nextchar, nonopt, opt, source_specified, pc, diag,
               exitcode, log, prev, given, ddash>>

fileVars == <<disk, wr, rd>>

timeVars == <<clock, mt, stamps, query>>

vars == <<fs, mask, errno, call, argv, files, xres, xpc, nofile, args, optind, nextchar,
          nonopt, opt, source_specified, pc, diag, exitcode, log, prev, given,
          ddash, disk, wr, rd, clock, mt, stamps, query>>

(***************************************************************************)
(* Permission bits and modes (file_posix.cc works on mode_t bit sets; a    *)
(* mode is the set of its bits, mode & ~mask is set difference).           *)
(***************************************************************************)
PermBits == {"ur", "uw", "ux", "gr", "gw", "gx", "or", "ow", "ox"}

M777 == PermBits
M755 == PermBits \ {"gw", "ow"}
M700 == {"ur", "uw", "ux"}
M500 == {"ur", "ux"}
M022 == {"gw", "ow"}
M000 == {}

\* the modes callers ask for, the umasks of the process, the modes other
\* processes give the directories they create
ReqModes == {M777, M700, M500}
Umasks == {M022, M000}
EnvModes == {M755, M700}

\* mode & ~mask
AndNot(mode, m) == mode \ m

(***************************************************************************)
(* Users.  geteuid() is the invoking (unprivileged) user.                  *)
(***************************************************************************)
Users == {"me", "other"}
geteuid == "me"

(***************************************************************************)
(* Paths                                                                   *)
(***************************************************************************)
EmptyPath == << >>
RootPath == <<"/">>
PA == <<"/", "a">>
PAB == <<"/", "a", "/", "b">>
PABC == <<"/", "a", "/", "b", "/", "c">>
PL == <<"/", "l">>
PT == <<"/", "t">>

\* the paths below "/" that the model's filesystem can hold
FsPaths == {PA, PAB, PABC, PL, PT}
\* the paths MakeDirectories is called with
CallPaths == {EmptyPath, RootPath, PA, PAB, PABC, PL}

NoNode == [kind |-> "none", uid |-> "me", mode |-> {}, target |-> EmptyPath]
DirNode(u, m) == [kind |-> "dir", uid |-> u, mode |-> m, target |-> EmptyPath]
FileNode(u) == [kind |-> "file", uid |-> u, mode |-> M755, target |-> EmptyPath]
LinkNode(u, t) == [kind |-> "link", uid |-> u, mode |-> M777, target |-> t]
RootNode == [kind |-> "dir", uid |-> "root", mode |-> M755, target |-> EmptyPath]

NoCall ==
    [active |-> FALSE, path |-> EmptyPath, mode |-> {}, ret |-> FALSE,
     before |-> [p \in FsPaths |-> NoNode], raced |-> FALSE,
     again |-> FALSE, ret1 |-> FALSE, mid |-> [p \in FsPaths |-> NoNode],
     race |-> [path |-> EmptyPath, node |-> NoNode]]

DirsIdle ==
    /\ fs = [p \in FsPaths |-> NoNode]
    /\ mask = M022
    /\ errno = "0"
    /\ call = NoCall

\* string::rfind('/'): the last index holding '/', 0 when there is none
\* (indices are 1-based here, so C's pos is RFindSlash - 1)
RFindSlash(path) ==
    LET S == {i \in 1..Len(path) : path[i] = "/"}
    IN  IF S = {} THEN 0 ELSE CHOOSE i \in S : \A j \in S : j <= i

SplitPath(path) ==
    LET pos == RFindSlash(path)
    IN  IF pos = 0 THEN <<EmptyPath, path>>
        ELSE IF pos = 1 THEN <<SubSeq(path, 1, 1), SubSeq(path, 2, Len(path))>>
        ELSE <<SubSeq(path, 1, pos - 1), SubSeq(path, pos + 1, Len(path))>>

Dirname(path) == SplitPath(path)[1]

IsRootDirectory(path) == Len(path) = 1 /\ path[1] = "/"

(***************************************************************************)
(* The system calls MakeDirectories makes, on the model's filesystem.      *)
(***************************************************************************)
NodeAt(f, path) ==
    IF path = RootPath THEN RootNode
    ELSE IF path \in FsPaths THEN f[path]
    ELSE NoNode

\* the inode a path names once a final symlink is followed
Deref(f, path) ==
    IF NodeAt(f, path).kind = "link" THEN NodeAt(f, NodeAt(f, path).target)
    ELSE NodeAt(f, path)

DerefPath(f, path) ==
    IF NodeAt(f, path).kind = "link" THEN NodeAt(f, path).target ELSE path

\* permission checks of the calling process on a directory inode: the owner
\* bits when the caller owns it, the others' bits otherwise
MaySearch(n) == IF n.uid = geteuid THEN "ux" \in n.mode ELSE "ox" \in n.mode

MayWrite(n) == IF n.uid = geteuid THEN "uw" \in n.mode ELSE "ow" \in n.mode

\* the directories a path walk crosses before the last component, "/" excluded
Ancestors(path) == {SubSeq(path, 1, i - 1) : i \in {j \in 2..Len(path) : path[j] = "/"}}

\* why the walk cannot cross directory inode n ("0" when it can)
CrossErr(n) ==
    IF n.kind = "none" THEN "ENOENT"
    ELSE IF n.kind # "dir" THEN "ENOTDIR"
    ELSE IF ~MaySearch(n) THEN "EACCES"
    ELSE "0"

FirstBad(f, bad) == CHOOSE q \in bad : \A r \in bad : Len(q) <= Len(r)

\* Path walk up to the parent directory of `path`: the errno of the first
\* component that is missing, is no directory or may not be searched.
WalkErr(f, path) ==
    IF Len(path) = 0 \/ path[1] # "/" THEN "ENOENT"
    ELSE IF {q \in Ancestors(path) : CrossErr(Deref(f, q)) # "0"} = {} THEN "0"
    ELSE CrossErr(Deref(f, FirstBad(f, {q \in Ancestors(path) : CrossErr(Deref(f, q)) # "0"})))

StatResult(w, n) ==
    IF w # "0" THEN [err |-> w, node |-> NoNode]
    ELSE IF n.kind = "none" THEN [err |-> "ENOENT", node |-> NoNode]
    ELSE [err |-> "0", node |-> n]

\* stat(2): follows a final symlink
Stat(f, path) == StatResult(WalkErr(f, path), Deref(f, path))

\* lstat(2): does not follow a final symlink
LStat(f, path) == StatResult(WalkErr(f, path), NodeAt(f, path))

ChmodResult(f, s, p, mode) ==
    IF s.err # "0" THEN [err |-> s.err, fs |-> f]
    ELSE IF s.node.uid # geteuid \/ p \notin FsPaths THEN [err |-> "EPERM", fs |-> f]
    ELSE [err |-> "0", fs |-> [f EXCEPT ![p].mode = mode]]

\* chmod(2): follows a final symlink; only the owner may change the mode
Chmod(f, path, mode) == ChmodResult(f, Stat(f, path), DerefPath(f, path), mode)

MkdirResult(f, w, pn, path, newmode) ==
    IF w # "0" THEN [err |-> w, fs |-> f]
    ELSE IF NodeAt(f, path).kind # "none" THEN [err |-> "EEXIST", fs |-> f]
    ELSE IF ~MayWrite(pn) \/ path \notin FsPaths THEN [err |-> "EACCES", fs |-> f]
    ELSE [err |-> "0", fs |-> [f EXCEPT ![path] = DirNode(geteuid, newmode)]]

\* mkdir(2) giving the new directory the mode asked for, whatever the umask
Mkdir_IgnoreUmask(f, path, mode, um) ==
    MkdirResult(f, WalkErr(f, path), Deref(f, Dirname(path)), path, mode)

\* mkdir(2): the new directory belongs to the caller and gets mode & ~umask
Mkdir(f, path, mode, um) ==
    MkdirResult(f, WalkErr(f, path), Deref(f, Dirname(path)), path, AndNot(mode, um))

(***************************************************************************)
(* file_posix.cc: GetDirectoryStat and MakeDirectories.  Each returns the  *)
(* boolean result, the errno it leaves and the filesystem it leaves.       *)
(***************************************************************************)
\* EnforceMode without the chmod: the directory is accepted with the mode it has
EnforceMode_NoChmod(f, e, ch, same) == [ok |-> TRUE, errno |-> e, fs |-> f]

\* lines 73-79: the mode is compared with mode & ~umask and chmod-ed if it differs
EnforceMode(f, e, ch, same) ==
    IF same THEN [ok |-> TRUE, errno |-> e, fs |-> f]
    ELSE IF ch.err # "0" THEN [ok |-> FALSE, errno |-> ch.err, fs |-> f]
    ELSE [ok |-> TRUE, errno |-> e, fs |-> ch.fs]

\* CheckPerms without the owner test of lines 67-71
CheckPerms_NoOwnerTest(f, e, path, m, filestat, linkstat) ==
    IF linkstat.err # "0" THEN [ok |-> FALSE, errno |-> linkstat.err, fs |-> f]
    ELSE EnforceMode(f, e, Chmod(f, path, m), filestat.node.mode = m)

\* lines 60-72: the owner of the link (lstat) must be the effective user
CheckPerms(f, e, path, m, filestat, linkstat) ==
    IF linkstat.err # "0" THEN [ok |-> FALSE, errno |-> linkstat.err, fs |-> f]
    ELSE IF linkstat.node.uid # geteuid THEN [ok |-> FALSE, errno |-> "EACCES", fs |-> f]
    ELSE EnforceMode(f, e, Chmod(f, path, m), filestat.node.mode = m)

\* lines 50-59
CheckIsDir(f, e, path, m, check_perms, filestat) ==
    IF filestat.err # "0" THEN [ok |-> FALSE, errno |-> filestat.err, fs |-> f]
    ELSE IF filestat.node.kind # "dir" THEN [ok |-> FALSE, errno |-> "ENOTDIR", fs |-> f]
    ELSE IF ~check_perms THEN [ok |-> TRUE, errno |-> e, fs |-> f]
    ELSE CheckPerms(f, e, path, m, filestat, LStat(f, path))

GetDirectoryStat(f, e, path, mode, check_perms, um) ==
    CheckIsDir(f, e, path, AndNot(mode, um), check_perms, Stat(f, path))

\* What another process does to `path` between this process's failed stat and
\* its mkdir: nothing, or it creates `path` first.
NoRace == [path |-> EmptyPath, node |-> NoNode]

Races ==
    {NoRace} \cup
    [path : {PAB, PABC},
     node : {DirNode("me", M755), DirNode("other", M755), DirNode("other", M777),
             FileNode("other")}]

RaceHits(f, path, race) ==
    /\ race.path = path
    /\ NodeAt(f, path).kind = "none"
    /\ Deref(f, Dirname(path)).kind = "dir"

ApplyRace(f, path, race) ==
    IF RaceHits(f, path, race) THEN [f EXCEPT ![path] = race.node] ELSE f

\* lines 103-121 with EEXIST taken as success for the childmost directory too
AfterMkdir_TrustExisting(f1, e, mk, hit, path, mode, childmost, um) ==
    IF mk.err = "0" THEN [ok |-> TRUE, errno |-> e, fs |-> mk.fs, raced |-> hit]
    ELSE IF mk.err # "EEXIST" THEN [ok |-> FALSE, errno |-> mk.err, fs |-> f1, raced |-> hit]
    ELSE [ok |-> TRUE, errno |-> "EEXIST", fs |-> f1, raced |-> hit]

\* lines 103-121: mkdir, and what MakeDirectories answers to its result
AfterMkdir(f1, e, mk, hit, path, mode, childmost, um) ==
    IF mk.err = "0" THEN [ok |-> TRUE, errno |-> e, fs |-> mk.fs, raced |-> hit]
    ELSE IF mk.err # "EEXIST" THEN [ok |-> FALSE, errno |-> mk.err, fs |-> f1, raced |-> hit]
    ELSE IF childmost
    THEN [raced |-> hit] @@ GetDirectoryStat(f1, "EEXIST", path, mode, childmost, um)
    ELSE [ok |-> TRUE, errno |-> "EEXIST", fs |-> f1, raced |-> hit]

\* lines 98-103: the parent is made; another process may act before the mkdir
AfterParent(up, f1, path, mode, childmost, um) ==
    IF ~up.ok THEN up
    ELSE AfterMkdir(f1, up.errno, Mkdir(f1, path, mode, um), up.raced \/ f1 # up.fs,
                    path, mode, childmost, um)

AfterParentOf(up, path, mode, childmost, um, race) ==
    AfterParent(up, ApplyRace(up.fs, path, race), path, mode, childmost, um)

RECURSIVE MakeDirectoriesRec(_, _, _, _, _, _, _)
\* lines 90-97 and 124
AfterStat(st, path, mode, childmost, um, race) ==
    IF st.ok THEN [raced |-> FALSE] @@ st
    ELSE IF st.errno # "ENOENT" THEN [raced |-> FALSE] @@ st
    ELSE AfterParentOf(MakeDirectoriesRec(st.fs, st.errno, Dirname(path), mode, FALSE, um, race),
                       path, mode, childmost, um, race)

MakeDirectoriesRec(f, e, path, mode, childmost, um, race) ==
    IF path = EmptyPath \/ IsRootDirectory(path)
    THEN [ok |-> FALSE, errno |-> "EACCES", fs |-> f, raced |-> FALSE]
    ELSE AfterStat(GetDirectoryStat(f, e, path, mode, childmost, um),
                   path, mode, childmost, um, race)

\* the public MakeDirectories(path, mode): the leaf is the childmost directory
MakeDirectories(f, e, path, mode, um, race) ==
    MakeDirectoriesRec(f, e, path, mode, TRUE, um, race)

(***************************************************************************)
(* linux-sandbox-options.cc: ExpandArgument and ExpandArguments.           *)
(* A token is a sequence of characters; an argument file is a sequence of  *)
(* lines.  DIE ends the process: the result then has status "die".         *)
(***************************************************************************)
\* tokens
DashDash == <<"-", "-">>
AtF == <<"@", "f">>
AtG == <<"@", "g">>
AtH == <<"@", "h">>
TokX == <<"x">>
TokA == <<"a">>
TokB == <<"b">>
EmptyLine == << >>

\* file names
NameF == <<"f">>
NameG == <<"g">>

\* bounds of the inputs: tokens on the command line, lines of file f,
\* descriptors the process may hold open at once
MaxTokens == 2
MaxLines == 3
MaxOpenFiles == 3

\* the calls of ExpandArgument, one in the other, the stack has room for: the
\* limit of descriptors may be below it or above it
MaxFrames == MaxOpenFiles + 1

SeqsUpTo(S, n) == UNION {[1..k -> S] : k \in 0..n}

ArgvTokens == {AtF, AtG, AtH, DashDash, TokX}
LinesOfF == {EmptyLine, TokA, DashDash, AtG}
ContentsOfG == {<<TokB>>, <<EmptyLine, TokB>>, <<AtF>>, <<DashDash, AtF>>}

Unreadable == [ok |-> FALSE, lines |-> << >>]
FileOf(lines) == [ok |-> TRUE, lines |-> lines]

\* arg[0] == '@'
IsAtFile(arg) == Len(arg) > 0 /\ arg[1] = "@"

\* arg + 1
FileName(arg) == Tail(arg)

\* ifstream f(filename); f.is_open(): the file is there and readable, and the
\* process can still open a descriptor (every level of the recursion holds one)
IsOpen(fl, name, depth) ==
    /\ name \in DOMAIN fl
    /\ fl[name].ok
    /\ depth < nofile

Died(expanded) == [status |-> "die", out |-> expanded.out]

\* the stack is exhausted: the process ends on SIGSEGV
Overflowed(expanded) == [status |-> "overflow", out |-> expanded.out]

PushBack(expanded, arg) == [expanded EXCEPT !.out = Append(@, arg)]

RECURSIVE ExpandArgument(_, _, _, _)
RECURSIVE ExpandLines(_, _, _, _, _)
RECURSIVE ExpandLines_KeepEmpty(_, _, _, _, _)
\* ExpandLines without the line.length() > 0 test of line 251
ExpandLines_KeepEmpty(expanded, lines, i, fl, depth) ==
    IF i > Len(lines) \/ expanded.status # "ok" THEN expanded
    ELSE ExpandLines_KeepEmpty(ExpandArgument(expanded, lines[i], fl, depth),
                               lines, i + 1, fl, depth)

\* the getline loop of lines 250-254; a line of length 0 is skipped
ExpandLines(expanded, lines, i, fl, depth) ==
    IF i > Len(lines) \/ expanded.status # "ok" THEN expanded
    ELSE IF Len(lines[i]) > 0
    THEN ExpandLines(ExpandArgument(expanded, lines[i], fl, depth), lines, i + 1, fl, depth)
    ELSE ExpandLines(expanded, lines, i + 1, fl, depth)

ExpandArgument(expanded, arg, fl, depth) ==
    IF expanded.status # "ok" THEN expanded
    ELSE IF depth >= MaxFrames THEN Overflowed(expanded)
    ELSE IF ~IsAtFile(arg) THEN PushBack(expanded, arg)
    ELSE IF ~IsOpen(fl, FileName(arg), depth) THEN Died(expanded)
    ELSE ExpandLines(expanded, fl[FileName(arg)].lines, 1, fl, depth + 1)

RECURSIVE ExpandFrom(_, _, _, _)
\* the loop of lines 272-279
ExpandFrom(expanded, argl, i, fl) ==
    IF i > Len(argl) \/ expanded.status # "ok" THEN expanded
    ELSE IF argl[i] # DashDash
    THEN ExpandFrom(ExpandArgument(expanded, argl[i], fl, 0), argl, i + 1, fl)
    ELSE [expanded EXCEPT !.out = @ \o SubSeq(argl, i, Len(argl))]

ExpandArguments(argl, fl) == ExpandFrom([status |-> "ok", out |-> << >>], argl, 1, fl)

(***************************************************************************)
(* file_posix.cc: WriteFile and ReadFile, on one path of one directory.    *)
(***************************************************************************)
\* the bytes of a buffer, and the longest buffer WriteFile is given
Bytes == {"p", "q"}
MaxSize == 2

NoFile == [kind |-> "none", data |-> << >>, writable |-> FALSE]
RegularFile(data, w) == [kind |-> "file", data |-> data, writable |-> w]

\* the errors write(2) and close(2) may end with
WriteErrors == {"ENOSPC", "EDQUOT"}
CloseErrors == {"EIO"}

\* what write(fd, data, size) returns: the number of bytes it took, or -1
WriteOutcomes(data) ==
    [n : 0..Len(data), err : {"0"}] \cup [n : {-1}, err : WriteErrors]

\* a prefix of data written at offset 0 over the bytes the file holds
Overlay(old, data, n) == SubSeq(data, 1, n) \o SubSeq(old, n + 1, Len(old))

\* unlink(2): needs the entry and write permission on its directory
Unlink(d, e) ==
    IF d.node.kind = "none" THEN [disk |-> d, errno |-> "ENOENT"]
    ELSE IF ~d.dir_writable THEN [disk |-> d, errno |-> "EACCES"]
    ELSE [disk |-> [d EXCEPT !.node = NoFile], errno |-> e]

\* open(2) with O_CREAT | O_WRONLY and no O_TRUNC
OpenForWrite_NoTrunc(d, e) ==
    IF d.node.kind = "none"
    THEN IF d.dir_writable
         THEN [ok |-> TRUE, disk |-> [d EXCEPT !.node = RegularFile(<< >>, TRUE)], errno |-> e]
         ELSE [ok |-> FALSE, disk |-> d, errno |-> "EACCES"]
    ELSE IF d.node.writable
         THEN [ok |-> TRUE, disk |-> d, errno |-> e]
         ELSE [ok |-> FALSE, disk |-> d, errno |-> "EACCES"]

\* open(filename, O_CREAT | O_WRONLY | O_TRUNC, 0755)
OpenForWrite(d, e) ==
    IF d.node.kind = "none"
    THEN IF d.dir_writable
         THEN [ok |-> TRUE, disk |-> [d EXCEPT !.node = RegularFile(<< >>, TRUE)], errno |-> e]
         ELSE [ok |-> FALSE, disk |-> d, errno |-> "EACCES"]
    ELSE IF d.node.writable
         THEN [ok |-> TRUE, disk |-> [d EXCEPT !.node.data = << >>], errno |-> e]
         ELSE [ok |-> FALSE, disk |-> d, errno |-> "EACCES"]

\* WriteTo: one call of write; true when it took the whole buffer
WriteTo(n, size) == n # -1 /\ n = size

\* lines 203-208: close(fd) ended with c ("0" when it succeeded)
AfterWrite(d, saved_errno, result, c, w) ==
    IF c # "0"
    THEN [ret |-> FALSE, errno |-> c, disk |-> d, opened |-> TRUE, werr |-> w.err,
          cerr |-> c]
    ELSE [ret |-> result, errno |-> saved_errno, disk |-> d, opened |-> TRUE,
          werr |-> w.err, cerr |-> c]

\* lines 197-202: o is what open returned, w what write returns
AfterOpen(o, data, w, c) ==
    IF ~o.ok
    THEN [ret |-> FALSE, errno |-> o.errno, disk |-> o.disk, opened |-> FALSE,
          werr |-> "0", cerr |-> "0"]
    ELSE AfterWrite(IF w.n = -1 THEN o.disk
                    ELSE [o.disk EXCEPT !.node.data = Overlay(@, data, w.n)],
                    IF w.n = -1 THEN w.err ELSE o.errno,
                    WriteTo(w.n, Len(data)), c, w)

\* line 194: the result of UnlinkPath is not looked at
AfterUnlink(u, data, w, c) == AfterOpen(OpenForWrite(u.disk, u.errno), data, w, c)

WriteFile(d, e, data, w, c) == AfterUnlink(Unlink(d, e), data, w, c)

\* ReadFrom: the bytes of the file, max_size of them at most
ReadFrom(data, max_size) ==
    SubSeq(data, 1, IF Len(data) < max_size THEN Len(data) ELSE max_size)

ReadFile(d, max_size) ==
    IF d.node.kind = "none" THEN [ret |-> FALSE, content |-> << >>]
    ELSE [ret |-> TRUE, content |-> ReadFrom(d.node.data, max_size)]

NoWrite ==
    [active |-> FALSE, data |-> << >>, ret |-> FALSE, opened |-> FALSE, werr |-> "0",
     cerr |-> "0", before |-> NoFile]

NoRead == [active |-> FALSE, max_size |-> 0, ret |-> FALSE, content |-> << >>]

FileIdle ==
    /\ disk = [dir_writable |-> FALSE, node |-> NoFile]
    /\ wr = NoWrite
    /\ rd = NoRead

(***************************************************************************)
(* file_posix.cc: PosixFileMtime.  Time is counted in years of 365 days,   *)
(* the unit of GetFuture.                                                  *)
(***************************************************************************)
\* the offsets of near_future_ and distant_future_
NearYears == 9
DistantYears == 10

\* the last year the clock of the model gets to
MaxYears == 11

StampPaths == {"p1", "p2"}

\* a path before the instance has marked it; mark and at are history: the
\* last marking and the time of the clock when it was made
NoStamp(exists) == [exists |-> exists, mtime |-> 0, mark |-> "none", at |-> 0]

GetNow(c) == c

GetFuture(c, years) == GetNow(c) + years

\* the constructor; `constructed` is history
PosixFileMtime(c) ==
    [near_future_ |-> GetFuture(c, NearYears),
     distant_future_ |-> GetFuture(c, DistantYears),
     constructed |-> c]

\* utime(2) on a path: fails when the path is not there
Set(st, path, mtime, mark) ==
    IF ~st[path].exists THEN [ok |-> FALSE, stamps |-> st]
    ELSE [ok |-> TRUE, stamps |-> [st EXCEPT ![path].mtime = mtime, ![path].mark = mark]]

SetToNow(st, path, c) == Set(st, path, GetNow(c), "now")

SetToDistantFuture(m, st, path) == Set(st, path, m.distant_future_, "future")

\* the test of line 314 with >= in place of >
GetIfInDistantFuture_AtOrAfter(m, st, path) ==
    IF ~st[path].exists THEN [ok |-> FALSE, result |-> FALSE]
    ELSE [ok |-> TRUE, result |-> (st[path].mtime >= m.near_future_)]

GetIfInDistantFuture(m, st, path) ==
    IF ~st[path].exists THEN [ok |-> FALSE, result |-> FALSE]
    ELSE [ok |-> TRUE, result |-> (st[path].mtime > m.near_future_)]

NoQuery == [op |-> "none", path |-> "p1", ok |-> FALSE, result |-> FALSE]

TimeIdle ==
    /\ clock = 0
    /\ mt = PosixFileMtime(0)
    /\ stamps = [p \in StampPaths |-> NoStamp(FALSE)]
    /\ query = NoQuery

(***************************************************************************)
(* linux-sandbox-options.cc: ParseCommandLine and ParseOptions.            *)
(***************************************************************************)
\* bounds of the command line: options getopt returns, tokens of the command
MaxOpts == 3
MaxCmd == 2

\* args[0], the name of the program
Prog == <<"l", "s">>

Null == <<"NULL">>
NoArg == <<"none">>

\* the option string of line 129, ":CS:W:T:t:l:L:w:i:e:M:m:NRD"
FlagOpts == {"C", "N", "R", "D"}
ArgOpts == {"S", "W", "T", "t", "l", "L", "w", "i", "e", "M", "m"}

Tok(c) == <<"-", c>>
PathA == <<"/", "a">>
PathB == <<"/", "b">>
PathC == <<"/", "c">>
PathTmp == <<"/", "t", "m", "p">>
PathCwd == <<"/", "w", "d">>
RelB == <<"b">>
Num5 == <<"5">>
Num5x == <<"5", "x">>
NumNeg == <<"-", "1">>

\* the tokens the command line is drawn from
OptionTokens ==
    {Tok(c) : c \in {"C", "S", "W", "T", "t", "l", "L", "w", "i", "e", "M", "m", "N", "z"}}
      \cup {<<"-", "R", "D">>, <<"-", "e", "/", "t", "m", "p">>}
NonOptionTokens == {TokX}
CommandTokens == {TokX, Tok("m")}

\* the arguments the command line gives to option c
ArgDomain(c) ==
    IF c = "M" THEN {PathA, PathC, RelB}
    ELSE IF c = "m" THEN {PathB, RelB}
    ELSE IF c \in {"T", "t"} THEN {Num5, Num5x, NumNeg, TokX}
    ELSE {PathA, RelB}

\* struct Options opt: a global, zero-initialized
InitialOptions ==
    [sandbox_root_dir |-> Null, working_dir |-> Null,
     timeout_secs |-> 0, kill_delay_secs |-> 0,
     stdout_path |-> Null, stderr_path |-> Null,
     writable_files |-> << >>, inaccessible_files |-> << >>, tmpfs_dirs |-> << >>,
     bind_mount_sources |-> << >>, bind_mount_targets |-> << >>,
     create_netns |-> FALSE, fake_root |-> FALSE, debug |-> FALSE,
     args |-> << >>]

(* getopt(3), GNU: scans args from optind, skips (permutes to the end) the   *)
(* elements that are no options, stops at "--" or at the end, and returns    *)
(* one option character per call.  The command line is read as getopt gets   *)
(* to it: an outcome holds the tokens it read.                               *)
Outcome(c, optarg, optopt, a, oi, nc, no, dd) ==
    [c |-> c, optarg |-> optarg, optopt |-> optopt, args |-> a, optind |-> oi,
     nextchar |-> nc, nonopt |-> no, dd |-> dd]

\* the option character at position k of the element a[oi + 1]
OptionAt(a, oi, k, no) ==
    IF a[oi + 1][k] \notin FlagOpts \cup ArgOpts
    THEN {Outcome("?", NoArg, a[oi + 1][k], a,
                  IF k = Len(a[oi + 1]) THEN oi + 1 ELSE oi,
                  IF k = Len(a[oi + 1]) THEN 0 ELSE k + 1, no, 0)}
    ELSE IF a[oi + 1][k] \in FlagOpts
    THEN {Outcome(a[oi + 1][k], NoArg, "", a,
                  IF k = Len(a[oi + 1]) THEN oi + 1 ELSE oi,
                  IF k = Len(a[oi + 1]) THEN 0 ELSE k + 1, no, 0)}
    ELSE IF k < Len(a[oi + 1])
    THEN {Outcome(a[oi + 1][k], SubSeq(a[oi + 1], k + 1, Len(a[oi + 1])), "", a,
                  oi + 1, 0, no, 0)}
    ELSE {Outcome(":", NoArg, a[oi + 1][k], a, oi + 1, 0, no, 0)}
           \cup {Outcome(a[oi + 1][k], arg, "", Append(a, arg), oi + 2, 0, no, 0) :
                    arg \in ArgDomain(a[oi + 1][k])}

\* a call that starts at a new element: after the non-options `pre`, the end
\* of the command line, or "--" and the rest, or an element of options
ScanFrom(a, no, more, room) ==
    {Outcome("-1", NoArg, "", a, Len(a), 0, no, 0)}
      \cup {Outcome("-1", NoArg, "", (a \o <<DashDash>>) \o rest, Len(a) + 1, 0, no,
                    Len(a) + 1) : rest \in SeqsUpTo(CommandTokens, room)}
      \cup (IF more
            THEN UNION {OptionAt(Append(a, tok), Len(a), 2, no) : tok \in OptionTokens}
            ELSE {})

GetoptOutcomes(a, oi, nc, no, more) ==
    IF nc # 0 THEN OptionAt(a, oi, nc, no)
    ELSE UNION {ScanFrom(a \o pre, no \cup ((Len(a) + 1)..(Len(a) + Len(pre))), more,
                         MaxCmd - Cardinality(no) - Len(pre)) :
                   pre \in SeqsUpTo(NonOptionTokens, MaxCmd - Cardinality(no))}

\* the elements of a at the indices in S, in order
Pick(a, S) ==
    LET idx == SelectSeq([i \in 1..Len(a) |-> i], LAMBDA i : i \in S)
    IN  [k \in 1..Len(idx) |-> a[idx[k]]]

\* the indices of the elements getopt took as options, option arguments or as
\* the "--" that ends them (dd is the index of that "--", 0 if there is none)
TakenIdx(a, no, dd) == {i \in 2..(IF dd = 0 THEN Len(a) ELSE dd) : i \notin no}

\* args as getopt leaves it: the options first, then the skipped non-options,
\* then what follows "--"
Permuted(a, no, dd) ==
    ((<<a[1]>> \o Pick(a, TakenIdx(a, no, dd))) \o Pick(a, no))
      \o (IF dd = 0 THEN << >> ELSE SubSeq(a, dd + 1, Len(a)))

\* optind once getopt has returned -1: the first of the non-options
FinalOptind(a, no, dd) == Cardinality(TakenIdx(a, no, dd)) + 1

(* sscanf(optarg, "%d", &x): the number of items stored and the value.       *)
Digits == {"0", "1", "2", "3", "4", "5", "6", "7", "8", "9"}

DigitValue(ch) == CHOOSE v \in 0..9 : <<"0", "1", "2", "3", "4", "5", "6", "7", "8", "9">>[v + 1] = ch

\* the length of the longest run of digits of str that starts at position i
RECURSIVE DigitRun(_, _)
DigitRun(str, i) ==
    IF i > Len(str) \/ str[i] \notin Digits THEN 0 ELSE 1 + DigitRun(str, i + 1)

RECURSIVE DecimalValue(_, _, _)
DecimalValue(str, i, n) ==
    IF n = 0 THEN 0
    ELSE DecimalValue(str, i, n - 1) * 10 + DigitValue(str[i + n - 1])

SignLen(str) == IF Len(str) > 0 /\ str[1] \in {"-", "+"} THEN 1 ELSE 0

Sscanf_d(str) ==
    IF Len(str) = 0 THEN [n |-> -1, v |-> 0]
    ELSE IF DigitRun(str, SignLen(str) + 1) = 0 THEN [n |-> 0, v |-> 0]
    ELSE [n |-> 1,
          v |-> (IF str[1] = "-" THEN -1 ELSE 1)
                  * DecimalValue(str, SignLen(str) + 1, DigitRun(str, SignLen(str) + 1))]

(* The cases of the switch of lines 131-226.  Each takes opt (and what else  *)
(* it reads) and gives opt as it leaves it, the message of the usage error   *)
(* it ends with ("" if none) and source_specified.                           *)
Handled(o, ss) == [opt |-> o, usage |-> "", ss |-> ss, crash |-> FALSE]
Usage(o, ss, msg) == [opt |-> o, usage |-> msg, ss |-> ss, crash |-> FALSE]
Crashed(o, ss) == [opt |-> o, usage |-> "", ss |-> ss, crash |-> TRUE]

AbsoluteOnly == "The -%c option must be used with absolute paths only."

\* ValidateIsAbsolutePath accepting every path
ValidateIsAbsolutePath_AcceptAll(path) == TRUE

\* TRUE when ValidateIsAbsolutePath returns, FALSE when it ends in Usage
ValidateIsAbsolutePath(path) == Len(path) > 0 /\ path[1] = "/"

Case_S(o, optarg) ==
    IF o.sandbox_root_dir = Null
    THEN IF ValidateIsAbsolutePath(optarg)
         THEN Handled([o EXCEPT !.sandbox_root_dir = optarg], "false")
         ELSE Usage(o, "false", AbsoluteOnly)
    ELSE Usage(o, "false", "Multiple root directories (-S) specified, expected one.")

Case_W(o, optarg) ==
    IF o.working_dir = Null
    THEN IF ValidateIsAbsolutePath(optarg)
         THEN Handled([o EXCEPT !.working_dir = optarg], "false")
         ELSE Usage(o, "false", AbsoluteOnly)
    ELSE Usage(o, "false", "Multiple working directories (-W) specified, expected one.")

\* sscanf stores into opt.timeout_secs before the value is tested
Case_T(o, sc) ==
    IF sc.n # 1 THEN Usage(o, "false", "Invalid timeout (-T) value: %s")
    ELSE IF sc.v < 0
    THEN Usage([o EXCEPT !.timeout_secs = sc.v], "false", "Invalid timeout (-T) value: %s")
    ELSE Handled([o EXCEPT !.timeout_secs = sc.v], "false")

Case_t(o, sc) ==
    IF sc.n # 1 THEN Usage(o, "false", "Invalid kill delay (-t) value: %s")
    ELSE IF sc.v < 0
    THEN Usage([o EXCEPT !.kill_delay_secs = sc.v], "false",
               "Invalid kill delay (-t) value: %s")
    ELSE Handled([o EXCEPT !.kill_delay_secs = sc.v], "false")

Case_l(o, optarg) ==
    IF o.stdout_path = Null THEN Handled([o EXCEPT !.stdout_path = optarg], "false")
    ELSE Usage(o, "false", "Cannot redirect stdout to more than one destination.")

Case_L(o, optarg) ==
    IF o.stderr_path = Null THEN Handled([o EXCEPT !.stderr_path = optarg], "false")
    ELSE Usage(o, "false", "Cannot redirect stderr to more than one destination.")

\* Case_w without the call of ValidateIsAbsolutePath of line 183
Case_w_NoValidate(o, optarg) ==
    Handled([o EXCEPT !.writable_files = Append(@, optarg)], "false")

Case_w(o, optarg) ==
    IF ValidateIsAbsolutePath(optarg)
    THEN Handled([o EXCEPT !.writable_files = Append(@, optarg)], "false")
    ELSE Usage(o, "false", AbsoluteOnly)

Case_i(o, optarg) ==
    IF ValidateIsAbsolutePath(optarg)
    THEN Handled([o EXCEPT !.inaccessible_files = Append(@, optarg)], "false")
    ELSE Usage(o, "false", AbsoluteOnly)

Case_e(o, optarg) ==
    IF ValidateIsAbsolutePath(optarg)
    THEN Handled([o EXCEPT !.tmpfs_dirs = Append(@, optarg)], "false")
    ELSE Usage(o, "false", AbsoluteOnly)

\* source_specified is not touched by line 130 for 'M' and 'm'
Case_M(o, optarg, ss) ==
    IF ValidateIsAbsolutePath(optarg)
    THEN Handled([o EXCEPT !.bind_mount_sources = Append(@, optarg),
                           !.bind_mount_targets = Append(@, optarg)], "true")
    ELSE Usage(o, ss, AbsoluteOnly)

\* Case_m pushing the target without the pop_back of line 207
Case_m_NoPopBack(o, optarg, ss, specified) ==
    IF ~ValidateIsAbsolutePath(optarg) THEN Usage(o, ss, AbsoluteOnly)
    ELSE IF ~specified
    THEN Usage(o, ss, "The -m option must be strictly preceded by an -M option.")
    ELSE Handled([o EXCEPT !.bind_mount_targets = Append(@, optarg)], "false")

\* `specified` is the value read from source_specified.  pop_back() on an
\* empty vector moves its end below its (null) begin, and the push_back that
\* follows stores through that pointer: the process ends on a signal.
Case_m(o, optarg, ss, specified) ==
    IF ~ValidateIsAbsolutePath(optarg) THEN Usage(o, ss, AbsoluteOnly)
    ELSE IF ~specified
    THEN Usage(o, ss, "The -m option must be strictly preceded by an -M option.")
    ELSE IF o.bind_mount_targets = << >> THEN Crashed(o, ss)
    ELSE Handled([o EXCEPT !.bind_mount_targets =
                              Append(SubSeq(@, 1, Len(@) - 1), optarg)], "false")

Case_N(o) == Handled([o EXCEPT !.create_netns = TRUE], "false")

Case_R(o) == Handled([o EXCEPT !.fake_root = TRUE], "false")

Case_D(o) == Handled([o EXCEPT !.debug = TRUE], "false")

\* the values a read of source_specified can give: it has no initializer, and
\* line 130 assigns it only once an option other than -M and -m was returned
ReadsOf(ss) == IF ss = "uninit" THEN {TRUE, FALSE} ELSE {ss = "true"}

\* lines 229-235 without the optind of getopt: the whole vector but args[0]
CommandFrom_WholeVector(o, vec, oi) ==
    IF 1 < Len(vec)
    THEN IF o.args = << >>
         THEN Handled([o EXCEPT !.args = SubSeq(vec, 2, Len(vec))], "false")
         ELSE Usage(o, "false", "Merging commands not supported.")
    ELSE Handled(o, "false")

\* lines 229-235: vec is args as getopt left it, oi is optind
CommandFrom(o, vec, oi) ==
    IF oi < Len(vec)
    THEN IF o.args = << >>
         THEN Handled([o EXCEPT !.args = SubSeq(vec, oi + 1, Len(vec))], "false")
         ELSE Usage(o, "false", "Merging commands not supported.")
    ELSE Handled(o, "false")

\* lines 288-296 with /tmp added only when it is not yet among tmpfs_dirs
PostProcess_TmpOnce(o, cwd) ==
    IF o.args = << >> THEN Usage(o, "false", "No command specified.")
    ELSE Handled([o EXCEPT !.tmpfs_dirs =
                              IF \E i \in 1..Len(@) : @[i] = PathTmp THEN @
                              ELSE Append(@, PathTmp),
                           !.working_dir = IF @ = Null THEN cwd ELSE @], "false")

\* lines 288-296 of ParseOptions; cwd is what getcwd(NULL, 0) returns
PostProcess(o, cwd) ==
    IF o.args = << >> THEN Usage(o, "false", "No command specified.")
    ELSE Handled([o EXCEPT !.tmpfs_dirs = Append(@, PathTmp),
                           !.working_dir = IF @ = Null THEN cwd ELSE @], "false")

ParseIdle ==
    /\ args = << >>
    /\ optind = 0
    /\ nextchar = 0
    /\ nonopt = {}
    /\ opt = InitialOptions
    /\ source_specified = "uninit"
    /\ pc = "idle"
    /\ diag = ""
    /\ exitcode = "none"
    /\ log = << >>
    /\ prev = InitialOptions
    /\ given = << >>
    /\ ddash = 0

(***************************************************************************)
(* Argument expansion as a state machine                                   *)
(***************************************************************************)
NoResult == [status |-> "none", out |-> << >>]

ExpandIdle ==
    /\ argv = << >>
    /\ files = [n \in {NameF, NameG} |-> Unreadable]
    /\ xres = NoResult
    /\ xpc = "idle"
    /\ nofile = MaxOpenFiles

InitExpand ==
    /\ argv \in SeqsUpTo(ArgvTokens, MaxTokens)
    /\ \E f \in {Unreadable} \cup {FileOf(l) : l \in SeqsUpTo(LinesOfF, MaxLines)},
          g \in {Unreadable} \cup {FileOf(l) : l \in ContentsOfG} :
          files = [n \in {NameF, NameG} |-> IF n = NameF THEN f ELSE g]
    /\ xres = NoResult
    /\ xpc = "start"
    /\ nofile \in {MaxOpenFiles, MaxFrames + 1}
    /\ DirsIdle
    /\ ParseIdle
    /\ FileIdle
    /\ TimeIdle

RunExpandArguments ==
    /\ xpc = "start"
    /\ xres' = ExpandArguments(argv, files)
    /\ xpc' = "expanded"
    /\ UNCHANGED <<argv, files, nofile>>
    /\ UNCHANGED dirVars
    /\ UNCHANGED parseVars
    /\ UNCHANGED fileVars
    /\ UNCHANGED timeVars

NextExpand == RunExpandArguments

SpecExpand == InitExpand /\ [][NextExpand]_vars

(***************************************************************************)
(* The directory materializer as a state machine.  Other processes set up  *)
(* the filesystem; then this process calls MakeDirectories.                *)
(***************************************************************************)
InitDirs ==
    /\ fs = [p \in FsPaths |-> NoNode]
    /\ mask \in Umasks
    /\ errno = "0"
    /\ call = NoCall
    /\ ExpandIdle
    /\ ParseIdle
    /\ FileIdle
    /\ TimeIdle

\* another process creates a directory
EnvMkdir ==
    /\ ~call.active
    /\ \E p \in FsPaths \ {PL}, u \in Users, m \in EnvModes :
          /\ fs[p].kind = "none"
          /\ Deref(fs, Dirname(p)).kind = "dir"
          /\ fs' = [fs EXCEPT ![p] = DirNode(u, m)]
    /\ UNCHANGED <<mask, errno, call>>
    /\ UNCHANGED expVars
    /\ UNCHANGED parseVars
    /\ UNCHANGED fileVars
    /\ UNCHANGED timeVars

\* another process creates a regular file
EnvCreat ==
    /\ ~call.active
    /\ \E p \in {PAB, PABC} :
          /\ fs[p].kind = "none"
          /\ Deref(fs, Dirname(p)).kind = "dir"
          /\ fs' = [fs EXCEPT ![p] = FileNode("other")]
    /\ UNCHANGED <<mask, errno, call>>
    /\ UNCHANGED expVars
    /\ UNCHANGED parseVars
    /\ UNCHANGED fileVars
    /\ UNCHANGED timeVars

\* some user makes /l a symbolic link to /t
EnvSymlink ==
    /\ ~call.active
    /\ \E u \in Users :
          /\ fs[PL].kind = "none"
          /\ fs' = [fs EXCEPT ![PL] = LinkNode(u, PT)]
    /\ UNCHANGED <<mask, errno, call>>
    /\ UNCHANGED expVars
    /\ UNCHANGED parseVars
    /\ UNCHANGED fileVars
    /\ UNCHANGED timeVars

CallMakeDirectories ==
    /\ ~call.active
    /\ \E path \in CallPaths, mode \in ReqModes, race \in Races :
          LET r == MakeDirectories(fs, errno, path, mode, mask, race)
          IN  /\ fs' = r.fs
              /\ errno' = r.errno
              /\ call' = [active |-> TRUE, path |-> path, mode |-> mode, ret |-> r.ok,
                          before |-> fs, raced |-> r.raced,
                          again |-> FALSE, ret1 |-> r.ok, mid |-> r.fs,
                          race |-> IF r.raced THEN race ELSE NoRace]
    /\ UNCHANGED mask
    /\ UNCHANGED expVars
    /\ UNCHANGED parseVars
    /\ UNCHANGED fileVars
    /\ UNCHANGED timeVars

\* the caller makes the same call once more, right after the first returned
\* and with no other process in between; call.ret1 and call.mid keep the
\* result of the first call and the filesystem it left
CallMakeDirectoriesAgain ==
    /\ call.active
    /\ ~call.again
    /\ fs' = MakeDirectories(fs, errno, call.path, call.mode, mask, NoRace).fs
    /\ errno' = MakeDirectories(fs, errno, call.path, call.mode, mask, NoRace).errno
    /\ call' = [call EXCEPT !.again = TRUE,
                            !.ret = MakeDirectories(fs, errno, call.path, call.mode, mask,
                                                    NoRace).ok]
    /\ UNCHANGED mask
    /\ UNCHANGED expVars
    /\ UNCHANGED parseVars
    /\ UNCHANGED fileVars
    /\ UNCHANGED timeVars

NextDirs ==
    \/ EnvMkdir
    \/ EnvCreat
    \/ EnvSymlink
    \/ CallMakeDirectories
    \/ CallMakeDirectoriesAgain

SpecDirs == InitDirs /\ [][NextDirs]_vars

(***************************************************************************)
(* The option parser as a state machine: ParseOptions on an expanded       *)
(* command line, one step per option getopt returns.  Until getopt returns *)
(* -1, args and optind are those of the command line as given; getopt's    *)
(* reordering shows once it has returned -1.                               *)
(***************************************************************************)
InitParse ==
    /\ DirsIdle
    /\ ExpandIdle
    /\ FileIdle
    /\ TimeIdle
    /\ args = <<Prog>>
    /\ optind = 1
    /\ nextchar = 0
    /\ nonopt = {}
    /\ opt = InitialOptions
    /\ source_specified = "uninit"
    /\ pc = "parse"
    /\ diag = ""
    /\ exitcode = "none"
    /\ log = << >>
    /\ prev = InitialOptions
    /\ given = <<Prog>>
    /\ ddash = 0

\* what one call of getopt in the loop of line 128 can return
\* r reads the command line ExpandArguments returned, when it has run: getopt
\* reads no token that is not there, and ends only where the line ends
RECURSIVE IsPrefix(_, _)
IsPrefix(a, b) ==
    Len(a) <= Len(b) /\ (a = << >> \/ (a[Len(a)] = b[Len(a)] /\ IsPrefix(SubSeq(a, 1, Len(a) - 1), b)))

ReadsExpanded(r) ==
    xres.status = "ok"
        => /\ IsPrefix(r.args, <<Prog>> \o xres.out)
           /\ (r.c \in {"-1", ":"} => r.args = <<Prog>> \o xres.out)

Returns(c) ==
    {r \in GetoptOutcomes(args, optind, nextchar, nonopt, Len(log) < MaxOpts) :
        r.c = c /\ ReadsExpanded(r)}

\* one turn of the loop: getopt returned r, the case of the switch gave h
Step(r, h) ==
    /\ args' = r.args
    /\ optind' = r.optind
    /\ nextchar' = r.nextchar
    /\ nonopt' = r.nonopt
    /\ opt' = h.opt
    /\ source_specified' = h.ss
    /\ pc' = IF h.crash THEN "crash" ELSE IF h.usage # "" THEN "usage" ELSE "parse"
    /\ diag' = h.usage
    /\ exitcode' = IF h.crash THEN "SIGSEGV"
                   ELSE IF h.usage # "" THEN "EXIT_FAILURE" ELSE "none"
    /\ log' = Append(log, [c |-> r.c, arg |-> r.optarg])
    /\ prev' = opt
    /\ given' = r.args
    /\ ddash' = 0
    /\ UNCHANGED dirVars
    /\ UNCHANGED expVars
    /\ UNCHANGED fileVars
    /\ UNCHANGED timeVars

\* case 'C': exit(CheckNamespacesSupported())
Opt_C ==
    /\ pc = "parse"
    /\ \E r \in Returns("C") : \E supported \in BOOLEAN :
          /\ args' = r.args
          /\ optind' = r.optind
          /\ nextchar' = r.nextchar
          /\ nonopt' = r.nonopt
          /\ source_specified' = "false"
          /\ pc' = "exit"
          /\ exitcode' = IF supported THEN "EXIT_SUCCESS" ELSE "EXIT_FAILURE"
          /\ log' = Append(log, [c |-> r.c, arg |-> r.optarg])
          /\ prev' = opt
          /\ given' = r.args
          /\ UNCHANGED <<opt, diag, ddash>>
          /\ UNCHANGED dirVars
          /\ UNCHANGED expVars
          /\ UNCHANGED fileVars
          /\ UNCHANGED timeVars

Opt_S == pc = "parse" /\ \E r \in Returns("S") : Step(r, Case_S(opt, r.optarg))

Opt_W == pc = "parse" /\ \E r \in Returns("W") : Step(r, Case_W(opt, r.optarg))

Opt_T == pc = "parse" /\ \E r \in Returns("T") : Step(r, Case_T(opt, Sscanf_d(r.optarg)))

Opt_t == pc = "parse" /\ \E r \in Returns("t") : Step(r, Case_t(opt, Sscanf_d(r.optarg)))

Opt_l == pc = "parse" /\ \E r \in Returns("l") : Step(r, Case_l(opt, r.optarg))

Opt_L == pc = "parse" /\ \E r \in Returns("L") : Step(r, Case_L(opt, r.optarg))

Opt_w == pc = "parse" /\ \E r \in Returns("w") : Step(r, Case_w(opt, r.optarg))

Opt_i == pc = "parse" /\ \E r \in Returns("i") : Step(r, Case_i(opt, r.optarg))

Opt_e == pc = "parse" /\ \E r \in Returns("e") : Step(r, Case_e(opt, r.optarg))

Opt_M ==
    pc = "parse" /\ \E r \in Returns("M") : Step(r, Case_M(opt, r.optarg, source_specified))

Opt_m ==
    /\ pc = "parse"
    /\ \E r \in Returns("m") : \E specified \in ReadsOf(source_specified) :
          Step(r, Case_m(opt, r.optarg, source_specified, specified))

Opt_N == pc = "parse" /\ \E r \in Returns("N") : Step(r, Case_N(opt))

Opt_R == pc = "parse" /\ \E r \in Returns("R") : Step(r, Case_R(opt))

Opt_D == pc = "parse" /\ \E r \in Returns("D") : Step(r, Case_D(opt))

\* case '?'
Opt_Unrecognized ==
    pc = "parse" /\ \E r \in Returns("?") : Step(r, Usage(opt, "false", "Unrecognized argument: -%c (%d)"))

\* case ':'
Opt_MissingArgument ==
    pc = "parse" /\ \E r \in Returns(":") :
                       Step(r, Usage(opt, "false", "Flag -%c requires an argument"))

\* getopt returned -1: the loop ends, lines 229-235 take the command
GetoptEnd ==
    /\ pc = "parse"
    /\ \E r \in Returns("-1") :
          /\ args' = Permuted(r.args, r.nonopt, r.dd)
          /\ optind' = FinalOptind(r.args, r.nonopt, r.dd)
          /\ nextchar' = 0
          /\ nonopt' = r.nonopt
          /\ opt' = CommandFrom(opt, Permuted(r.args, r.nonopt, r.dd),
                                FinalOptind(r.args, r.nonopt, r.dd)).opt
          /\ diag' = CommandFrom(opt, Permuted(r.args, r.nonopt, r.dd),
                                 FinalOptind(r.args, r.nonopt, r.dd)).usage
          /\ pc' = IF diag' # "" THEN "usage" ELSE "post"
          /\ exitcode' = IF diag' # "" THEN "EXIT_FAILURE" ELSE "none"
          /\ prev' = opt
          /\ given' = r.args
          /\ ddash' = r.dd
          /\ UNCHANGED <<source_specified, log>>
          /\ UNCHANGED dirVars
          /\ UNCHANGED expVars
          /\ UNCHANGED fileVars
          /\ UNCHANGED timeVars

\* ParseOptions after ParseCommandLine returned; getcwd gives the current
\* directory, or NULL when it fails
PostProcessOptions ==
    /\ pc = "post"
    /\ \E cwd \in {PathCwd, Null} :
          /\ opt' = PostProcess(opt, cwd).opt
          /\ diag' = PostProcess(opt, cwd).usage
    /\ pc' = IF diag' # "" THEN "usage" ELSE "done"
    /\ exitcode' = IF diag' # "" THEN "EXIT_FAILURE" ELSE "none"
    /\ prev' = opt
    /\ UNCHANGED <<args, optind, nextchar, nonopt, source_specified, log, given, ddash>>
    /\ UNCHANGED dirVars
    /\ UNCHANGED expVars
    /\ UNCHANGED fileVars
    /\ UNCHANGED timeVars

NextParse ==
    \/ Opt_C
    \/ Opt_S
    \/ Opt_W
    \/ Opt_T
    \/ Opt_t
    \/ Opt_l
    \/ Opt_L
    \/ Opt_w
    \/ Opt_i
    \/ Opt_e
    \/ Opt_M
    \/ Opt_m
    \/ Opt_N
    \/ Opt_R
    \/ Opt_D
    \/ Opt_Unrecognized
    \/ Opt_MissingArgument
    \/ GetoptEnd
    \/ PostProcessOptions

SpecParse == InitParse /\ [][NextParse]_vars

(***************************************************************************)
(* ParseOptions as a whole: ExpandArguments on argv, then ParseCommandLine *)
(* on the vector it returned.                                              *)
(***************************************************************************)
\* the tokens of argv and the contents of the argument file f
StartTokens == {Tok("C"), Tok("N"), Tok("z"), AtF, AtH, TokX}
StartFiles == {Unreadable, FileOf(<< >>), FileOf(<<Tok("N")>>), FileOf(<<Tok("C")>>)}

InitParseOptions ==
    /\ argv \in SeqsUpTo(StartTokens, MaxTokens)
    /\ \E f \in StartFiles : files = [n \in {NameF, NameG} |-> IF n = NameF THEN f ELSE Unreadable]
    /\ xres = NoResult
    /\ xpc = "start"
    /\ nofile = MaxOpenFiles
    /\ DirsIdle
    /\ ParseIdle
    /\ FileIdle
    /\ TimeIdle

\* DIE in ExpandArgument: a message on stderr and exit(EXIT_FAILURE)
ExpandDied ==
    /\ xpc = "expanded"
    /\ pc = "idle"
    /\ xres.status = "die"
    /\ pc' = "die"
    /\ diag' = "opening argument file %s failed"
    /\ exitcode' = "EXIT_FAILURE"
    /\ UNCHANGED <<args, optind, nextchar, nonopt, opt, source_specified, log, prev,
                   given, ddash>>
    /\ UNCHANGED dirVars
    /\ UNCHANGED expVars
    /\ UNCHANGED fileVars
    /\ UNCHANGED timeVars

\* ParseCommandLine is entered with the vector ExpandArguments returned
BeginParse ==
    /\ xpc = "expanded"
    /\ pc = "idle"
    /\ xres.status = "ok"
    /\ args' = <<Prog>>
    /\ given' = <<Prog>>
    /\ optind' = 1
    /\ pc' = "parse"
    /\ UNCHANGED <<nextchar, nonopt, opt, source_specified, diag, exitcode, log, prev,
                   ddash>>
    /\ UNCHANGED dirVars
    /\ UNCHANGED expVars
    /\ UNCHANGED fileVars
    /\ UNCHANGED timeVars

NextParseOptions ==
    \/ RunExpandArguments
    \/ ExpandDied
    \/ BeginParse
    \/ Opt_C
    \/ Opt_N
    \/ Opt_Unrecognized
    \/ GetoptEnd
    \/ PostProcessOptions

SpecParseOptions == InitParseOptions /\ [][NextParseOptions]_vars

(***************************************************************************)
(* Directory materializer: claims                                          *)
(***************************************************************************)
Returned == call.active
ReturnedTrue == call.active /\ call.ret

\* C1 (as stated): whenever MakeDirectories(path, mode) returns true, path
\* resolves to a directory that is owned by the effective user and whose
\* permission bits are exactly mode & ~umask, also when the leaf is a symlink
\* to a directory.
C1_AsStated ==
    ReturnedTrue =>
        /\ Deref(fs, call.path).kind = "dir"
        /\ Deref(fs, call.path).uid = geteuid
        /\ Deref(fs, call.path).mode = AndNot(call.mode, mask)

\* C1 (amended): whenever MakeDirectories(path, mode) returns true, path
\* resolves to a directory whose permission bits are exactly mode & ~umask,
\* and the entry at path itself (the symlink when the leaf is a symlink, the
\* directory otherwise) is owned by the effective user.
C1_TrueMeansModeAndEntryOwner ==
    ReturnedTrue =>
        /\ Deref(fs, call.path).kind = "dir"
        /\ Deref(fs, call.path).mode = AndNot(call.mode, mask)
        /\ NodeAt(fs, call.path).uid = geteuid

\* the symlink case: the call returned true on a link of the caller that
\* points to a directory of another user
C1_Witness ==
    /\ ReturnedTrue
    /\ NodeAt(fs, call.path).kind = "link"
    /\ Deref(fs, call.path).kind = "dir"
    /\ Deref(fs, call.path).uid = "other"

\* the leaf was a real directory of another user when the call was made
LeafWasForeignDir ==
    /\ call.active
    /\ NodeAt(call.before, call.path).kind = "dir"
    /\ NodeAt(call.before, call.path).uid # geteuid

\* C2: MakeDirectories on a leaf that already exists as a directory owned by
\* another user returns false with errno EACCES and leaves the filesystem as
\* it was: nothing is chmod-ed, nothing is created.
C2_ForeignLeafRejectedUntouched ==
    LeafWasForeignDir => (~call.ret /\ errno = "EACCES" /\ fs = call.before)

\* a foreign leaf that is reachable and whose mode differs from the requested
\* one (so that a chmod would have been due) was rejected by the owner test
C2_Witness ==
    /\ LeafWasForeignDir
    /\ WalkErr(call.before, call.path) = "0"
    /\ NodeAt(call.before, call.path).mode # AndNot(call.mode, mask)
    /\ ~call.ret
    /\ errno = "EACCES"

\* the first call was made on /a/b/c with /a/b and /a/b/c missing under a real
\* directory /a that the caller may search and write, and no other process
\* touched the filesystem during the call
NestedMissing ==
    /\ call.active
    /\ call.path = PABC
    /\ ~call.raced
    /\ NodeAt(call.before, PA).kind = "dir"
    /\ MaySearch(NodeAt(call.before, PA))
    /\ MayWrite(NodeAt(call.before, PA))
    /\ NodeAt(call.before, PAB).kind = "none"
    /\ NodeAt(call.before, PABC).kind = "none"

\* both calls returned true and the second left every entry as the first did
BothSucceededSamePermissions ==
    /\ call.ret1
    /\ call.ret
    /\ fs = call.mid
    /\ NodeAt(fs, PAB) = DirNode(geteuid, AndNot(call.mode, mask))
    /\ NodeAt(fs, PABC) = DirNode(geteuid, AndNot(call.mode, mask))

\* C12 (as stated): for every missing nested path under a directory the caller
\* may write, and every mode, two consecutive calls of MakeDirectories both
\* return true and the leaf and the created ancestors have the same
\* permission bits after the second call as after the first.
C12_AsStated == (call.again /\ NestedMissing) => BothSucceededSamePermissions

\* the directories MakeDirectories creates let their owner search and write
OwnerMayDescend(mode, um) == {"uw", "ux"} \subseteq AndNot(mode, um)

\* C12 (amended): the same, for every mode that, after the umask, lets the
\* owner write and search the directories created; with any other mode the
\* first call creates the topmost missing ancestor, cannot create below it,
\* and both calls return false with errno EACCES.
C12_TwiceSameResult ==
    (call.again /\ NestedMissing)
        => IF OwnerMayDescend(call.mode, mask) THEN BothSucceededSamePermissions
           ELSE /\ ~call.ret1
                /\ ~call.ret
                /\ errno = "EACCES"
                /\ fs = call.mid
                /\ NodeAt(fs, PAB) = DirNode(geteuid, AndNot(call.mode, mask))
                /\ NodeAt(fs, PABC).kind = "none"

C12_Witness ==
    /\ call.again
    /\ NestedMissing
    /\ call.mode = M777
    /\ mask = M022
    /\ call.ret1
    /\ call.ret
    /\ NodeAt(fs, PABC).mode = M755

\* another process created the leaf between the stat of the first call and
\* its mkdir, which failed with EEXIST
LeafRaced == call.active /\ ~call.again /\ call.raced /\ call.race.path = call.path

\* another process created the ancestor /a/b of the leaf /a/b/c in that way
AncestorRaced == call.active /\ ~call.again /\ call.raced /\ call.race.path # call.path

\* C17: when the leaf was created by another process so that mkdir failed
\* with EEXIST, MakeDirectories answers with the check of the leaf: false
\* (ENOTDIR) when the new leaf is no directory, false (EACCES) when it belongs
\* to another user, and true only with the leaf owned by the caller and
\* chmod-ed to mode & ~umask.  When an ancestor was created in that way it is
\* taken as it is, with no test of its owner and no chmod.
C17_RaceRechecksLeaf ==
    /\ LeafRaced
          => /\ call.race.node.kind # "dir" => (~call.ret /\ errno = "ENOTDIR")
             /\ (call.race.node.kind = "dir" /\ call.race.node.uid # geteuid)
                   => (~call.ret /\ errno = "EACCES")
             /\ ~call.ret => NodeAt(fs, call.path) = call.race.node
             /\ (call.race.node.kind = "dir" /\ call.race.node.uid = geteuid) => call.ret
             /\ call.ret => NodeAt(fs, call.path) = DirNode(geteuid, AndNot(call.mode, mask))
    /\ AncestorRaced
          => /\ NodeAt(fs, call.race.path) = call.race.node
             /\ call.ret <=> (/\ call.race.node.kind = "dir"
                               /\ MaySearch(call.race.node)
                               /\ MayWrite(call.race.node))
             /\ call.ret => NodeAt(fs, call.path) = DirNode(geteuid, AndNot(call.mode, mask))

\* the leaf came from a process of the caller with another mode, and was
\* chmod-ed by the check
C17_Witness ==
    /\ LeafRaced
    /\ call.race.node = DirNode(geteuid, M755)
    /\ call.mode = M700
    /\ call.ret
    /\ NodeAt(fs, call.path).mode = M700

(***************************************************************************)
(* Argument expansion: claims                                              *)
(***************************************************************************)
Expanded == xpc = "expanded"
ExpandedOk == xpc = "expanded" /\ xres.status = "ok"

\* the index of the first "--" of a token list, 0 when it has none
FirstDashDash(list) ==
    IF {i \in 1..Len(list) : list[i] = DashDash} = {} THEN 0
    ELSE CHOOSE i \in 1..Len(list) :
            /\ list[i] = DashDash
            /\ \A j \in 1..(i - 1) : list[j] # DashDash

\* the tokens after the first "--" (none when there is no "--")
AfterFirstDashDash(list) ==
    IF FirstDashDash(list) = 0 THEN << >>
    ELSE SubSeq(list, FirstDashDash(list) + 1, Len(list))

\* the number of leading tokens that stand before the first "--"
BeforeDashDash(list) ==
    IF FirstDashDash(list) = 0 THEN Len(list) ELSE FirstDashDash(list) - 1

\* The expansion the claim C7 describes: it reads tokens and lines as the code
\* does, but once a literal "--" has been copied to the output (from the
\* command line or from a file) every further token and line is copied as is.
RECURSIVE StopArg(_, _, _, _)
RECURSIVE StopLines(_, _, _, _, _)
StopLines(acc, lines, i, fl, depth) ==
    IF i > Len(lines) \/ acc.status # "ok" THEN acc
    ELSE IF Len(lines[i]) > 0
    THEN StopLines(StopArg(acc, lines[i], fl, depth), lines, i + 1, fl, depth)
    ELSE StopLines(acc, lines, i + 1, fl, depth)

StopArg(acc, arg, fl, depth) ==
    IF acc.status # "ok" THEN acc
    ELSE IF FirstDashDash(acc.out) # 0 \/ ~IsAtFile(arg) THEN PushBack(acc, arg)
    ELSE IF ~IsOpen(fl, FileName(arg), depth) THEN Died(acc)
    ELSE StopLines(acc, fl[FileName(arg)].lines, 1, fl, depth + 1)

RECURSIVE StopFrom(_, _, _, _)
StopFrom(acc, argl, i, fl) ==
    IF i > Len(argl) \/ acc.status # "ok" THEN acc
    ELSE StopFrom(StopArg(acc, argl[i], fl, 0), argl, i + 1, fl)

StopsAtFirstDashDash(argl, fl) == StopFrom([status |-> "ok", out |-> << >>], argl, 1, fl)

\* C7: in the output of ExpandArguments every token after the first literal
\* "--" is copied through verbatim and never replaced by the contents of a
\* file, also when that "--" was reached through an @file.
C7_AsStated ==
    ExpandedOk =>
        AfterFirstDashDash(xres.out) =
            AfterFirstDashDash(StopsAtFirstDashDash(argv, files).out)

\* the file names a token list refers to
RefsOf(list) == {FileName(list[i]) : i \in {j \in 1..Len(list) : IsAtFile(list[j])}}

LinesOf(fl, n) == IF n \in DOMAIN fl /\ fl[n].ok THEN fl[n].lines ELSE << >>

RECURSIVE RefClosure(_, _, _)
RefClosure(fl, S, k) ==
    IF k = 0 THEN S
    ELSE RefClosure(fl, S \cup UNION {RefsOf(LinesOf(fl, n)) : n \in S}, k - 1)

\* the files the expansion of argv gets to
Reached == RefClosure(files, RefsOf(SubSeq(argv, 1, BeforeDashDash(argv))),
                      Cardinality(DOMAIN files))

\* every argument file the expansion gets to is readable and none of them
\* refers to itself, directly or through other files
AcyclicReadable ==
    /\ \A n \in Reached : n \in DOMAIN files /\ files[n].ok
    /\ \A n \in Reached :
          n \notin RefClosure(files, RefsOf(LinesOf(files, n)), Cardinality(DOMAIN files))

NonEmptyLines(lines) == SelectSeq(lines, LAMBDA l : Len(l) > 0)

\* the positions among the first `limit` that hold an @file token
AtPositions(list, limit) == {i \in 1..limit : IsAtFile(list[i])}

FirstOf(S) == CHOOSE i \in S : \A j \in S : i <= j

\* Replacement in place, as the claim C8 words it: as long as one of the
\* tokens that stand before the first "--" of the command line is an @file
\* token, the leftmost one is replaced, where it stands, by the non-empty
\* lines of its file; the lines put in are open to replacement in turn.
RECURSIVE ReplaceInPlace(_, _, _)
ReplaceInPlace(fl, list, limit) ==
    IF AtPositions(list, limit) = {} THEN list
    ELSE ReplaceInPlace(
            fl,
            SubSeq(list, 1, FirstOf(AtPositions(list, limit)) - 1)
              \o NonEmptyLines(LinesOf(fl, FileName(list[FirstOf(AtPositions(list, limit))])))
              \o SubSeq(list, FirstOf(AtPositions(list, limit)) + 1, Len(list)),
            limit - 1
              + Len(NonEmptyLines(LinesOf(fl, FileName(list[FirstOf(AtPositions(list, limit))])))))

Cyclic ==
    \E n \in Reached :
        n \in RefClosure(files, RefsOf(LinesOf(files, n)), Cardinality(DOMAIN files))

\* C18: ExpandArguments ends on every input, and on a command line that gets
\* to an argument file which refers to itself, directly or through another
\* file, it ends in a failure the process reports (DIE) and not by running
\* out of stack.
C18_AsStated ==
    Expanded
        => /\ xres.status \in {"ok", "die"}
           /\ Cyclic => xres.status = "die"

(***************************************************************************)
(* Option parser: claims                                                   *)
(***************************************************************************)
\* the options whose argument linux-sandbox tests with ValidateIsAbsolutePath
Validated == {"S", "W", "w", "i", "e", "M", "m"}

IsAbsolute(path) == Len(path) > 0 /\ path[1] = "/"

NoCommand == "No command specified."

\* parsing ended in a usage error of the option getopt returned last
OptionRejected == pc = "usage" /\ diag # NoCommand

\* the options that were handled without ending the process
Accepted ==
    IF OptionRejected \/ pc = "crash" THEN SubSeq(log, 1, Len(log) - 1) ELSE log

\* the positions in lg of the options c, in order
Positions(lg, c) == SelectSeq([i \in 1..Len(lg) |-> i], LAMBDA i : lg[i].c = c)

ArgsOf(lg, c) == [k \in 1..Len(Positions(lg, c)) |-> lg[Positions(lg, c)[k]].arg]

\* the target of the pair opened by the -M at position p of lg
TargetOfPair(lg, p) ==
    IF p < Len(lg) /\ lg[p + 1].c = "m" THEN lg[p + 1].arg ELSE lg[p].arg

TargetsOf(lg) ==
    [k \in 1..Len(Positions(lg, "M")) |-> TargetOfPair(lg, Positions(lg, "M")[k])]

BindMountsUnchanged ==
    /\ opt.bind_mount_sources = prev.bind_mount_sources
    /\ opt.bind_mount_targets = prev.bind_mount_targets

\* C3: a -m is accepted only when the option parsed immediately before it was
\* a -M; a -m that is the first option, or that follows an option other than
\* -M, ends parsing with a usage error and a failure exit status and leaves
\* the bind-mount sources and targets as they were.
C3_AsStated ==
    \A k \in 1..Len(log) :
        (log[k].c = "m" /\ (k = 1 \/ log[k - 1].c # "M"))
            => /\ k = Len(log)
               /\ pc = "usage"
               /\ exitcode = "EXIT_FAILURE"
               /\ BindMountsUnchanged

\* C4: after any accepted sequence of options, bind_mount_sources holds the
\* arguments of the -M options in order, bind_mount_targets has the same
\* length, its i-th element is the argument of the -m that immediately
\* follows the i-th -M, or else the i-th source; a -m leaves the targets of
\* all pairs but the last as they were.
C4_BindMountPairs ==
    /\ opt.bind_mount_sources = ArgsOf(Accepted, "M")
    /\ opt.bind_mount_targets = TargetsOf(Accepted)
    /\ Len(opt.bind_mount_targets) = Len(opt.bind_mount_sources)
    /\ (pc = "parse" /\ log # << >> /\ log[Len(log)].c = "m")
          => /\ Len(opt.bind_mount_targets) = Len(prev.bind_mount_targets)
             /\ \A i \in 1..(Len(prev.bind_mount_targets) - 1) :
                   opt.bind_mount_targets[i] = prev.bind_mount_targets[i]

C4_Witness ==
    /\ pc = "parse"
    /\ log = <<[c |-> "M", arg |-> PathA], [c |-> "m", arg |-> PathB],
               [c |-> "M", arg |-> PathC]>>
    /\ opt.bind_mount_sources = <<PathA, PathC>>
    /\ opt.bind_mount_targets = <<PathB, PathC>>

\* path is held by one of the fields the validated options store into
Stored(o, path) ==
    \/ o.sandbox_root_dir = path
    \/ o.working_dir = path
    \/ \E i \in 1..Len(o.writable_files) : o.writable_files[i] = path
    \/ \E i \in 1..Len(o.inaccessible_files) : o.inaccessible_files[i] = path
    \/ \E i \in 1..Len(o.tmpfs_dirs) : o.tmpfs_dirs[i] = path
    \/ \E i \in 1..Len(o.bind_mount_sources) : o.bind_mount_sources[i] = path
    \/ \E i \in 1..Len(o.bind_mount_targets) : o.bind_mount_targets[i] = path

\* C5: an argument of -W, -S, -w, -i, -e, -M or -m that does not begin with
\* '/' ends parsing with a usage error and a failure exit status, and is not
\* assigned to sandbox_root_dir or working_dir nor appended to any list.
C5_RelativePathRejected ==
    \A k \in 1..Len(log) :
        (log[k].c \in Validated /\ ~IsAbsolute(log[k].arg))
            => /\ k = Len(log)
               /\ pc = "usage"
               /\ exitcode = "EXIT_FAILURE"
               /\ opt = prev
               /\ ~Stored(opt, log[k].arg)

C5_Witness ==
    /\ pc = "usage"
    /\ Len(log) = 2
    /\ log[1] = [c |-> "M", arg |-> PathA]
    /\ log[2] = [c |-> "m", arg |-> RelB]
    /\ opt.bind_mount_targets = <<PathA>>

AbsoluteOrNull(path) == path = Null \/ IsAbsolute(path)

AllAbsolute(list) == \A i \in 1..Len(list) : IsAbsolute(list[i])

\* the fields the validated options and ParseOptions store into
ValidatedFieldsAbsolute(o) ==
    /\ AbsoluteOrNull(o.sandbox_root_dir)
    /\ AbsoluteOrNull(o.working_dir)
    /\ AllAbsolute(o.writable_files)
    /\ AllAbsolute(o.inaccessible_files)
    /\ AllAbsolute(o.tmpfs_dirs)
    /\ AllAbsolute(o.bind_mount_sources)
    /\ AllAbsolute(o.bind_mount_targets)

\* C6 as stated: when ParseOptions returns, every path field that is set is
\* absolute, stdout_path and stderr_path among them, and no path-valued
\* option was given a relative argument.
C6_AsStated ==
    pc = "done"
        => /\ ValidatedFieldsAbsolute(opt)
           /\ AbsoluteOrNull(opt.stdout_path)
           /\ AbsoluteOrNull(opt.stderr_path)
           /\ \A k \in 1..Len(log) :
                 log[k].c \in Validated \cup {"l", "L"} => IsAbsolute(log[k].arg)

\* the argument of the one option c of lg, Null if there is none
OnlyArgOf(lg, c) == IF ArgsOf(lg, c) = << >> THEN Null ELSE ArgsOf(lg, c)[1]

\* C6: when ParseOptions returns, sandbox_root_dir and working_dir, where
\* set, and every element of writable_files, inaccessible_files, tmpfs_dirs,
\* bind_mount_sources and bind_mount_targets are absolute, and none of -S, -W,
\* -w, -i, -e, -M, -m was given a relative argument; stdout_path and
\* stderr_path hold the arguments of -l and -L as they were given.
C6_ValidatedPathsAbsolute ==
    pc = "done"
        => /\ ValidatedFieldsAbsolute(opt)
           /\ \A k \in 1..Len(log) : log[k].c \in Validated => IsAbsolute(log[k].arg)
           /\ opt.stdout_path = OnlyArgOf(log, "l")
           /\ opt.stderr_path = OnlyArgOf(log, "L")

C6_Witness ==
    /\ pc = "done"
    /\ opt.stdout_path = RelB
    /\ opt.writable_files = <<PathA>>
    /\ opt.working_dir = PathCwd

\* the tokens of the command line that getopt took neither as an option, nor
\* as the argument of one, nor as the "--" that ends the options
Remaining ==
    Pick(given, {i \in 2..Len(given) : i \in nonopt \/ (ddash # 0 /\ i > ddash)})

\* C9: when no token remains after the options, ParseOptions ends with the
\* usage error "No command specified." and a failure exit status; when it
\* returns, opt.args is not empty and holds the remaining tokens in the order
\* they were given.
C9_CommandIsRemainder ==
    /\ pc = "done" => (opt.args # << >> /\ opt.args = Remaining)
    /\ pc = "post" => opt.args = Remaining
    /\ (pc = "usage" /\ diag = NoCommand)
          => (Remaining = << >> /\ opt.args = << >> /\ exitcode = "EXIT_FAILURE")

C9_Witness ==
    /\ pc = "done"
    /\ log = <<[c |-> "N", arg |-> NoArg]>>
    /\ given = <<Prog, TokX, Tok("N"), DashDash, Tok("m")>>
    /\ opt.args = <<TokX, Tok("m")>>

\* C10: when ParseOptions returns, tmpfs_dirs holds the arguments of the -e
\* options in order, followed by one "/tmp", also when -e /tmp was given; when
\* parsing ends in a usage error no "/tmp" was appended.
C10_TmpfsDirsEndWithTmp ==
    /\ pc = "done" => opt.tmpfs_dirs = Append(ArgsOf(log, "e"), PathTmp)
    /\ pc = "usage" => opt.tmpfs_dirs = ArgsOf(Accepted, "e")

C10_Witness ==
    /\ pc = "done"
    /\ ArgsOf(log, "e") = <<PathTmp>>
    /\ opt.tmpfs_dirs = <<PathTmp, PathTmp>>

\* str is the decimal representation of a non-negative integer
IsDecimal(str) == Len(str) > 0 /\ \A i \in 1..Len(str) : str[i] \in Digits

\* C16: an argument of -T or -t that is not the decimal representation of a
\* non-negative integer (a negative number, a string that is no number,
\* digits followed by other characters) ends parsing with a usage error and a
\* failure exit status; when ParseOptions returns, timeout_secs and
\* kill_delay_secs are not negative.
C16_AsStated ==
    /\ \A k \in 1..Len(log) :
          (log[k].c \in {"T", "t"} /\ ~IsDecimal(log[k].arg))
              => (k = Len(log) /\ pc = "usage" /\ exitcode = "EXIT_FAILURE")
    /\ pc = "done" => (opt.timeout_secs >= 0 /\ opt.kill_delay_secs >= 0)

(***************************************************************************)
(* ParseOptions as a whole: claims                                         *)
(***************************************************************************)
Finished == pc \in {"exit", "die", "usage", "done", "crash"}

\* argv[k] is -C and getopt gets to it: only flags and non-options precede it
ProbeAt(k) == argv[k] = Tok("C") /\ \A j \in 1..(k - 1) : argv[j] \in {Tok("N"), TokX}

\* C11: when -C is among the options of the command line, the process ends
\* with the result of the probe as its exit status and without a diagnostic,
\* whatever tokens follow -C: none of them is expanded, validated or stored.
C11_AsStated ==
    \A k \in 1..Len(argv) :
        (ProbeAt(k) /\ Finished)
            => /\ pc = "exit"
               /\ diag = ""
               /\ log # << >>
               /\ log[Len(log)].c = "C"
               /\ Len(args) = k + 1

(***************************************************************************)
(* WriteFile and ReadFile as a state machine: one call of WriteFile on a   *)
(* path that holds a file or nothing, then one call of ReadFile.           *)
(***************************************************************************)
InitFile ==
    /\ disk \in [dir_writable : BOOLEAN,
                 node : {NoFile} \cup {RegularFile(d, w) :
                                          d \in SeqsUpTo(Bytes, MaxSize + 1), w \in BOOLEAN}]
    /\ wr = NoWrite
    /\ rd = NoRead
    /\ DirsIdle
    /\ ExpandIdle
    /\ ParseIdle
    /\ TimeIdle

WriteFileCall ==
    /\ ~wr.active
    /\ \E data \in SeqsUpTo(Bytes, MaxSize) :
          \E w \in WriteOutcomes(data), c \in {"0"} \cup CloseErrors :
              /\ disk' = WriteFile(disk, errno, data, w, c).disk
              /\ errno' = WriteFile(disk, errno, data, w, c).errno
              /\ wr' = [active |-> TRUE, data |-> data,
                        ret |-> WriteFile(disk, errno, data, w, c).ret,
                        opened |-> WriteFile(disk, errno, data, w, c).opened,
                        werr |-> WriteFile(disk, errno, data, w, c).werr,
                        cerr |-> WriteFile(disk, errno, data, w, c).cerr,
                        before |-> disk.node]
    /\ UNCHANGED <<fs, mask, call, rd>>
    /\ UNCHANGED expVars
    /\ UNCHANGED parseVars
    /\ UNCHANGED timeVars

ReadFileCall ==
    /\ wr.active
    /\ ~rd.active
    /\ \E max_size \in 1..(MaxSize + 1) :
          rd' = [active |-> TRUE, max_size |-> max_size,
                 ret |-> ReadFile(disk, max_size).ret,
                 content |-> ReadFile(disk, max_size).content]
    /\ UNCHANGED <<disk, wr>>
    /\ UNCHANGED dirVars
    /\ UNCHANGED expVars
    /\ UNCHANGED parseVars
    /\ UNCHANGED timeVars

NextFile == WriteFileCall \/ ReadFileCall

SpecFile == InitFile /\ [][NextFile]_vars

(***************************************************************************)
(* WriteFile and ReadFile: claims                                          *)
(***************************************************************************)
\* C13: after a WriteFile that returned true, ReadFile with a bound of at
\* least the size of the buffer returns true and gives exactly the bytes of
\* the buffer, whatever the path held before: no byte of an older, longer
\* content is left.
C13_WriteThenReadGivesBuffer ==
    (rd.active /\ wr.ret /\ Len(wr.data) <= rd.max_size)
        => /\ rd.ret
           /\ rd.content = wr.data
           /\ disk.node.data = wr.data

\* the old file was longer and could not be unlinked
C13_Witness ==
    /\ rd.active
    /\ wr.ret
    /\ ~disk.dir_writable
    /\ wr.before = RegularFile(<<"p", "q", "p">>, TRUE)
    /\ wr.data = <<"q">>
    /\ rd.content = <<"q">>

\* C14: when the write of WriteFile fails with an error code and the close
\* that follows fails too, WriteFile returns false and errno is the code the
\* write set, not the one close set.
C14_AsStated ==
    (wr.active /\ wr.opened /\ wr.werr # "0" /\ wr.cerr # "0")
        => (~wr.ret /\ errno = wr.werr)

(***************************************************************************)
(* PosixFileMtime as a state machine: one instance, constructed when the   *)
(* process starts, the clock going on, calls on two paths.                 *)
(***************************************************************************)
InitTime ==
    /\ clock \in 0..1
    /\ mt = PosixFileMtime(clock)
    /\ stamps \in [StampPaths -> {NoStamp(e) : e \in BOOLEAN}]
    /\ query = NoQuery
    /\ DirsIdle
    /\ ExpandIdle
    /\ ParseIdle
    /\ FileIdle

\* a year goes by
Tick ==
    /\ clock < MaxYears
    /\ clock' = clock + 1
    /\ UNCHANGED <<mt, stamps, query>>
    /\ UNCHANGED dirVars
    /\ UNCHANGED expVars
    /\ UNCHANGED parseVars
    /\ UNCHANGED fileVars

\* the call returned r on path: the marking is noted when it was made
Marked(op, path, r) ==
    /\ stamps' = IF r.ok THEN [r.stamps EXCEPT ![path].at = clock] ELSE stamps
    /\ query' = [op |-> op, path |-> path, ok |-> r.ok, result |-> FALSE]

CallSetToNow ==
    /\ \E path \in StampPaths : Marked("now", path, SetToNow(stamps, path, clock))
    /\ UNCHANGED <<clock, mt>>
    /\ UNCHANGED dirVars
    /\ UNCHANGED expVars
    /\ UNCHANGED parseVars
    /\ UNCHANGED fileVars

CallSetToDistantFuture ==
    /\ \E path \in StampPaths : Marked("future", path, SetToDistantFuture(mt, stamps, path))
    /\ UNCHANGED <<clock, mt>>
    /\ UNCHANGED dirVars
    /\ UNCHANGED expVars
    /\ UNCHANGED parseVars
    /\ UNCHANGED fileVars

CallGetIfInDistantFuture ==
    /\ \E path \in StampPaths :
          query' = [op |-> "get", path |-> path,
                    ok |-> GetIfInDistantFuture(mt, stamps, path).ok,
                    result |-> GetIfInDistantFuture(mt, stamps, path).result]
    /\ UNCHANGED <<clock, mt, stamps>>
    /\ UNCHANGED dirVars
    /\ UNCHANGED expVars
    /\ UNCHANGED parseVars
    /\ UNCHANGED fileVars

NextTime == Tick \/ CallSetToNow \/ CallSetToDistantFuture \/ CallGetIfInDistantFuture

SpecTime == InitTime /\ [][NextTime]_vars

(***************************************************************************)
(* PosixFileMtime: claims                                                  *)
(***************************************************************************)
\* the last call was a GetIfInDistantFuture that returned true (it answered)
Answered == query.op = "get" /\ query.ok

\* C15 (as stated): whenever the calls are made, a path whose last marking was
\* SetToDistantFuture answers true to GetIfInDistantFuture and a path whose
\* last marking was SetToNow answers false.
C15_AsStated ==
    Answered
        => /\ stamps[query.path].mark = "future" => query.result
           /\ stamps[query.path].mark = "now" => ~query.result

\* C15 (amended): a path whose last marking was SetToDistantFuture answers
\* true; a path whose last marking was SetToNow answers false when that
\* SetToNow was made no later than nine years after the instance was
\* constructed, and true when it was made later.
C15_BandsWithinNineYears ==
    Answered
        => /\ stamps[query.path].mark = "future" => query.result
           /\ stamps[query.path].mark = "now"
                 => (query.result <=> stamps[query.path].at > mt.constructed + NearYears)

\* SetToNow exactly nine years after the construction
C15_Witness ==
    /\ Answered
    /\ stamps[query.path].mark = "now"
    /\ stamps[query.path].at = mt.constructed + NearYears
    /\ ~query.result

====
